---- MODULE Spec2Model ----
(***************************************************************************)
(* DataLink: the graph compiler that turns the authored YAML documents     *)
(* into network.json, entities-meta.json, relationships.json and one       *)
(* entities/{id}.json per entity.                                          *)
(*                                                                         *)
(* The compiler itself (core_datalink.py, generate_pages.py) is not among  *)
(* the source files; it is modelled from section 4.1, 6 and 7 of the       *)
(* specification and from the JSON shapes of TECHNICAL_DOCUMENTATION.md.   *)
(*                                                                         *)
(* The pages are translated from the JavaScript: the network page          *)
(* (network.js, NetSpec), the entity page (entity.js, EntSpec) and its     *)
(* gallery (gallery.js: lazy loading in LazySpec, lightbox in              *)
(* LightboxSpec).                                                          *)
(***************************************************************************)
EXTENDS Integers, Sequences, FiniteSets, TLC

\* ------------------------------------------------------------------ bounds
\* source documents of one build
MaxDocs == 2
\* entity records of one build, over all documents
MaxEnts == 2
\* relationship records of one build, over all documents
MaxRels == 2
\* calls of network.fit() caused by resize events
MaxFits == 2
\* calls of loadAndDisplayEntity on one page
MaxCalls == 3
\* image requests started on one page
MaxRequests == 2
\* clicks and key presses on the gallery of one page
MaxEvents == 3
\* resize events on the network page
MaxResizes == 3
\* openEntityLightbox calls on one page of docs/javascripts/entity.js
MaxOpens == 3

\* ------------------------------------------------------------ input records
\* Entity records as authored.  A record is a function from field names to
\* values; an optional field that is not authored is not in its domain.
EntA == [id |-> "a", type |-> "person", name |-> "A"]
EntA2 == [id |-> "a", type |-> "movie", name |-> "A2", description |-> "second a"]
EntB == [id |-> "b", type |-> "movie", name |-> "B",
         properties |-> [release_year |-> "1999"],
         image_links |-> <<"http://img/1", [url |-> "http://img/2", alt |-> "two"]>>]
EntNoName == [id |-> "b", type |-> "movie"]
EntNoId == [type |-> "person", name |-> "C"]

EntityPool == {EntA, EntA2, EntB, EntNoName, EntNoId}

RelAB == [from |-> "a", to |-> "b", type |-> "starred_in"]
RelBA == [from |-> "b", to |-> "a", type |-> "knows", properties |-> [role |-> "lead"]]
RelAC == [from |-> "a", to |-> "c", type |-> "knows"]
RelNoTo == [from |-> "a", type |-> "knows"]

RelPool == {RelAB, RelBA, RelAC, RelNoTo}

\* sequences over S of length at most n
SeqUpTo(S, n) == UNION {[1..k -> S] : k \in 0..n}

\* source documents with at most ne entity records and nr relationship records
Docs(ne, nr) == [entities : SeqUpTo(EntityPool, ne), relationships : SeqUpTo(RelPool, nr)]

\* ------------------------------------------------------------------ helpers
Min(S) == CHOOSE x \in S : \A y \in S : x <= y

RECURSIVE Flatten(_)
Flatten(ss) == IF ss = <<>> THEN <<>> ELSE Head(ss) \o Flatten(Tail(ss))

\* ------------------------------------------------------------------- schema
RequiredEntityFieldsNoName == {"id", "type"}
RequiredEntityFields == {"id", "type", "name"}

RequiredRelationshipFields == {"from", "to", "type"}

\* index of the first record of recs lacking a required field, 0 when none
SchemaIndex(recs, required) ==
    LET bad == {i \in 1..Len(recs) : ~(required \subseteq DOMAIN recs[i])}
    IN IF bad = {} THEN 0 ELSE Min(bad)

NoError == [kind |-> "none"]

SchemaError(file, section, index) ==
    [kind |-> "schema", file |-> file, section |-> section, index |-> index]

\* --------------------------------------------------------------- duplicates
\* index of the first record of recs whose id is already known or repeats an
\* earlier record of recs, 0 when none
DuplicateIndexAcrossDocsOnly(known, recs) ==
    LET dups == {i \in 1..Len(recs) : recs[i].id \in known}
    IN IF dups = {} THEN 0 ELSE Min(dups)
DuplicateIndex(known, recs) ==
    LET dups == {i \in 1..Len(recs) :
                    \/ recs[i].id \in known
                    \/ \E j \in 1..(i - 1) : recs[j].id = recs[i].id}
    IN IF dups = {} THEN 0 ELSE Min(dups)

DuplicateError(file, index, id) ==
    [kind |-> "duplicate", file |-> file, index |-> index, id |-> id]

\* -------------------------------------------------------------------- merge
\* the merged entities: a mapping keyed by id, iterated in insertion order
EmptyGraph == [map |-> [k \in {} |-> NoError], order |-> <<>>]

RECURSIVE MergeEntities(_, _)
MergeEntities(g, recs) ==
    IF recs = <<>> THEN g
    ELSE LET e == Head(recs)
             g2 == [map |-> [k \in DOMAIN g.map \cup {e.id} |->
                                IF k = e.id THEN e ELSE g.map[k]],
                    order |-> IF e.id \in DOMAIN g.map THEN g.order
                              ELSE Append(g.order, e.id)]
         IN MergeEntities(g2, Tail(recs))

\* ------------------------------------------------------ referential check
\* the ids a relationship names that are not entities, in the order from, to
MissingIdsFromOnly(ids, r) == IF r.from \in ids THEN <<>> ELSE <<r.from>>
MissingIds(ids, r) ==
    (IF r.from \in ids THEN <<>> ELSE <<r.from>>)
    \o (IF r.to \in ids THEN <<>> ELSE <<r.to>>)

\* index of the first relationship with an endpoint that is no entity, 0 when none
DanglingIndex(ids, rels) ==
    LET bad == {i \in 1..Len(rels) : MissingIds(ids, rels[i]) # <<>>}
    IN IF bad = {} THEN 0 ELSE Min(bad)

ReferentialErrorNoId(index, r, ids) ==
    [kind |-> "referential", index |-> index, relationship |-> r, missing |-> r.from]
ReferentialError(index, r, ids) ==
    [kind |-> "referential", index |-> index, relationship |-> r,
     missing |-> Head(MissingIds(ids, r))]

\* -------------------------------------------------------------- projections
\* one node per entity: id, display label, type-derived style hint, hover text
Node(e) == [id |-> e.id, label |-> e.name, type |-> e.type, title |-> e.name]

\* one edge per relationship: from, to, label, style hint
EdgeReversed(r) == [from |-> r.to, to |-> r.from, label |-> r.type, arrows |-> "to"]
Edge(r) == [from |-> r.from, to |-> r.to, label |-> r.type, arrows |-> "to"]

NodesOf(g) == [i \in 1..Len(g.order) |-> Node(g.map[g.order[i]])]

\* s without the repetitions of an earlier element
RECURSIVE Distinct(_)
Distinct(s) ==
    IF s = <<>> THEN <<>>
    ELSE LET front == Distinct(SubSeq(s, 1, Len(s) - 1))
             last == s[Len(s)]
         IN IF \E i \in 1..Len(front) : front[i] = last THEN front ELSE Append(front, last)

EdgesOfDistinct(rels) == [i \in 1..Len(Distinct(rels)) |-> Edge(Distinct(rels)[i])]
EdgesOf(rels) == [i \in 1..Len(rels) |-> Edge(rels[i])]

NetworkView(g, rels) == [nodes |-> NodesOf(g), edges |-> EdgesOf(rels)]

\* id -> {id, name, type}
EntitiesMetaFull(g) == g.map
EntitiesMeta(g) ==
    [k \in DOMAIN g.map |-> [id |-> g.map[k].id, name |-> g.map[k].name, type |-> g.map[k].type]]

\* the relationship list, verbatim
RelationshipsIndexCore(rels) ==
    [i \in 1..Len(rels) |-> [from |-> rels[i].from, to |-> rels[i].to, type |-> rels[i].type]]
RelationshipsIndex(rels) == rels

\* A JSON object is written as its members in order: a sequence of
\* <<key, value>> pairs.  Only the fields the entity has are written.
EntityFieldOrder ==
    <<"id", "type", "name", "description", "properties", "external_links",
      "image_links", "local_images">>

SerializeWithNulls(e) ==
    [i \in 1..Len(EntityFieldOrder) |->
        <<EntityFieldOrder[i],
          IF EntityFieldOrder[i] \in DOMAIN e THEN e[EntityFieldOrder[i]] ELSE "null">>]
Serialize(e) ==
    LET keys == SelectSeq(EntityFieldOrder, LAMBDA k : k \in DOMAIN e)
    IN [i \in 1..Len(keys) |-> <<keys[i], e[keys[i]]>>]

\* reading a JSON object back: the record of its members
Deserialize(doc) ==
    [k \in {doc[i][1] : i \in DOMAIN doc} |->
        doc[CHOOSE i \in DOMAIN doc : doc[i][1] = k][2]]

\* ------------------------------------------------------------ output files
NetworkPath == <<"data", "network.json">>
MetaPath == <<"data", "entities-meta.json">>
RelationshipsPath == <<"data", "relationships.json">>
EntityPath(id) == <<"data", "entities", id>>

EmptySite == [p \in {} |-> <<>>]

\* -------------------------------------------------------------------- state
VARIABLES
    dupPolicy,      \* "reject" or "last_wins": the documented duplicate-id policy
    sources,        \* the ordered source documents of the build
    run,            \* 1: first build, 2: the build run again on the same sources
    loaded,         \* source documents loaded by the current run
    pc,             \* "load", "project", "done", "failed"
    entities,       \* merged entities [map, order]
    relationships,  \* merged relationships, in order
    error,          \* the error the run was aborted with
    site,           \* output files of the current run: path -> content
    prevSite        \* output files of the first run, kept when the build is run again

vars == <<dupPolicy, sources, run, loaded, pc, entities, relationships, error, site, prevSite>>

\* ------------------------------------------------- state of the network page
VARIABLES
    networkJs,      \* the network.js the page was deployed with
    visLoaded,      \* vis-network.js was loaded before network.js
    netPc,          \* "closed", "init", "fetch", "json", "settled", "left"
    container,      \* #network-graph: [html, loaded]
    network,        \* the vis.Network instance exists
    networkData,    \* the parsed network.json, <<>> until parsed
    params,         \* the last click on the graph: [nodes, ctrlKey]
    location,       \* window.location of the tab
    opened,         \* URLs opened in new tabs
    resizeTimeout,  \* id: the timer id held by resizeTimeout; pending: timers set and not fired
    initialFit,     \* the timer of the initial fit is pending
    fits            \* calls of network.fit()

netVars == <<networkJs, visLoaded, netPc, container, network, networkData, params,
             location, opened, resizeTimeout, initialFit, fits>>

IndexUrl == [path |-> <<"index", ".html">>, hash |-> <<>>]
\* let resizeTimeout; no timer was set yet
NoTimer == [id |-> 0, pending |-> {}]
NoClick == [nodes |-> <<>>, ctrlKey |-> FALSE]

\* the network page is not open
NetClosed ==
    /\ networkJs = "part_001"
    /\ visLoaded = TRUE
    /\ netPc = "closed"
    /\ container = [html |-> "", loaded |-> FALSE]
    /\ network = FALSE
    /\ networkData = <<>>
    /\ params = NoClick
    /\ location = IndexUrl
    /\ opened = {}
    /\ resizeTimeout = NoTimer
    /\ initialFit = FALSE
    /\ fits = 0

\* -------------------------------------------------- state of the entity page
VARIABLES
    pagePc,             \* "closed", "loading", "entity", "ready"
    hash,               \* window.location.hash without the #
    entitiesMetaData,   \* cache of entities-meta.json: <<>> is null, <<v>> is v
    relationshipsData,  \* cache of relationships.json: <<>> is null, <<v>> is v
    calls,              \* the calls of loadAndDisplayEntity: [entityId, at]
    requests,           \* the fetches issued: [by, url]
    entityLoading,      \* style.display of #entity-loading
    entityContent,      \* classList of #entity-content
    entityError,        \* classList of #entity-error
    rendered,           \* what renderEntity wrote into #entity-content
    title,              \* document.title
    entity,             \* the entity last given to renderEntity, <<>> if none
    items,              \* every .gallery-item created so far, by element
    galleryItems,       \* the .gallery-item elements in the document, in order
    observer,           \* this.observer: the IntersectionObserver created last
    observed,           \* <<o, u>>: observer o observes element u
    images,             \* this.images
    currentImageIndex,  \* this.currentImageIndex
    lightbox,           \* #lightbox-modal
    bodyOverflow,       \* document.body.style.overflow
    event               \* the last user event on the gallery: [n, kind, key, active, index]

pageVars == <<pagePc, hash, entitiesMetaData, relationshipsData, calls, requests,
              entityLoading, entityContent, entityError, rendered, title, entity,
              items, galleryItems, observer, observed, images, currentImageIndex,
              lightbox, bodyOverflow, event>>

\* the markup of entity.md
InitialRendered ==
    [name |-> "", type |-> "", description |-> <<>>, properties |-> <<>>,
     links |-> <<>>, headings |-> {}, incoming |-> <<>>, outgoing |-> <<>>,
     display |-> {}]
InitialLightbox ==
    [classes |-> {"hidden"}, src |-> "", alt |-> <<>>, current |-> 1, total |-> 1,
     prevDisabled |-> FALSE, nextDisabled |-> FALSE]
NoItems == [u \in {} |-> 0]
NoEvent == [n |-> 0, kind |-> "none", key |-> "", active |-> FALSE, index |-> 0]

\* the document as parsed, window.gallery constructed, no handler run yet
PageMarkup ==
    /\ entitiesMetaData = <<>>
    /\ relationshipsData = <<>>
    /\ calls = <<>>
    /\ requests = {}
    /\ entityLoading = ""
    /\ entityContent = {"hidden"}
    /\ entityError = {"hidden"}
    /\ rendered = InitialRendered
    /\ title = <<"Entity">>
    /\ entity = <<>>
    /\ items = NoItems
    /\ galleryItems = <<>>
    /\ observer = 0
    /\ observed = {}
    /\ images = <<>>
    /\ currentImageIndex = 0
    /\ lightbox = InitialLightbox
    /\ bodyOverflow = ""
    /\ event = NoEvent

\* the entity page is not open
PageClosed ==
    /\ pagePc = "closed"
    /\ hash = ""
    /\ PageMarkup

\* ---------------------- state of the lightbox of docs/javascripts/entity.js
VARIABLES
    oldPc,            \* "closed", or "ready": an entity with images is displayed
    oldItems,         \* data-src of the .gallery-item elements, in document order
    oldLightbox,      \* #lightbox-modal: classes, image src, counter
    oldOverflow,      \* document.body.style.overflow
    closures,         \* one per openEntityLightbox call: its currentIndex and images
    keydownHandlers   \* the calls whose handleKeydown is a keydown listener of document

oldVars == <<oldPc, oldItems, oldLightbox, oldOverflow, closures, keydownHandlers>>

\* the page of docs/javascripts/entity.js is not open
OldClosed ==
    /\ oldPc = "closed"
    /\ oldItems = <<>>
    /\ oldLightbox = [classes |-> {"hidden"}, src |-> "", current |-> 1, total |-> 1]
    /\ oldOverflow = ""
    /\ closures = <<>>
    /\ keydownHandlers = {}

notCompiler == <<netVars, pageVars, oldVars>>

Init ==
    /\ dupPolicy \in {"reject", "last_wins"}
    /\ sources = <<>>
    /\ run = 1
    /\ loaded = 0
    /\ pc = "load"
    /\ entities = EmptyGraph
    /\ relationships = <<>>
    /\ error = NoError
    /\ site = EmptySite
    /\ prevSite = EmptySite
    /\ NetClosed
    /\ PageClosed
    /\ OldClosed

SourceEntities == Flatten([i \in 1..Len(sources) |-> sources[i].entities])
SourceRelationships == Flatten([i \in 1..Len(sources) |-> sources[i].relationships])

Abort(e) ==
    /\ pc' = "failed"
    /\ error' = e
    /\ UNCHANGED <<entities, relationships>>

\* load-and-merge of one source document: schema check, duplicate check, merge
LoadAndMerge(d) ==
    /\ pc = "load"
    /\ sources' = IF run = 1 THEN Append(sources, d) ELSE sources
    /\ loaded' = loaded + 1
    /\ LET file == loaded + 1
           se == SchemaIndex(d.entities, RequiredEntityFields)
           sr == SchemaIndex(d.relationships, RequiredRelationshipFields)
           di == IF se = 0 THEN DuplicateIndex(DOMAIN entities.map, d.entities) ELSE 0
       IN IF se # 0 THEN Abort(SchemaError(file, "entities", se))
          ELSE IF sr # 0 THEN Abort(SchemaError(file, "relationships", sr))
          ELSE IF di # 0 /\ dupPolicy = "reject"
               THEN Abort(DuplicateError(file, di, d.entities[di].id))
          ELSE /\ entities' = MergeEntities(entities, d.entities)
               /\ relationships' = relationships \o d.relationships
               /\ UNCHANGED <<pc, error>>
    /\ UNCHANGED <<dupPolicy, run, site, prevSite, notCompiler>>

\* first run: the next source document is any document within the bounds
LoadNext ==
    /\ run = 1
    /\ Len(sources) < MaxDocs
    /\ \E d \in Docs(MaxEnts - Len(SourceEntities), MaxRels - Len(SourceRelationships)) :
          LoadAndMerge(d)

\* second run: the same documents in the same order
LoadAgain ==
    /\ run = 2
    /\ loaded < Len(sources)
    /\ LoadAndMerge(sources[loaded + 1])

\* end of load-and-merge: every relationship endpoint must be a merged entity
ValidateReferences ==
    /\ pc = "load"
    /\ loaded = Len(sources)
    /\ LET di == DanglingIndex(DOMAIN entities.map, relationships)
       IN IF di # 0
          THEN Abort(ReferentialError(di, relationships[di], DOMAIN entities.map))
          ELSE /\ pc' = "project"
               /\ UNCHANGED <<entities, relationships, error>>
    /\ UNCHANGED <<dupPolicy, sources, run, loaded, site, prevSite, notCompiler>>

\* artifacts are written only once the merged graph has been validated
WritePhaseEarly == pc \in {"load", "project"}
WritePhase == pc = "project"

Write(path, content) ==
    /\ WritePhase
    /\ path \notin DOMAIN site
    /\ site' = [p \in DOMAIN site \cup {path} |-> IF p = path THEN content ELSE site[p]]
    /\ UNCHANGED <<dupPolicy, sources, run, loaded, pc, entities, relationships, error, prevSite, notCompiler>>

Written(path) == path \in DOMAIN site

\* the projections run one after the other, in the order of section 4.1
ProjectNetworkView == Write(NetworkPath, NetworkView(entities, relationships))

ProjectEntitiesMeta ==
    /\ Written(NetworkPath)
    /\ Write(MetaPath, EntitiesMeta(entities))

ProjectRelationshipsIndex ==
    /\ Written(MetaPath)
    /\ Write(RelationshipsPath, RelationshipsIndex(relationships))

\* one document per entity, in the order of the merged mapping
ProjectEntityDocument ==
    /\ Written(RelationshipsPath)
    /\ LET k == Cardinality({p \in DOMAIN site : Len(p) = 3})
       IN /\ k < Len(entities.order)
          /\ Write(EntityPath(entities.order[k + 1]), Serialize(entities.map[entities.order[k + 1]]))

ExpectedFiles ==
    {NetworkPath, MetaPath, RelationshipsPath} \cup {EntityPath(id) : id \in DOMAIN entities.map}

Finish ==
    /\ pc = "project"
    /\ ExpectedFiles \subseteq DOMAIN site
    /\ pc' = "done"
    /\ UNCHANGED <<dupPolicy, sources, run, loaded, entities, relationships, error, site, prevSite, notCompiler>>

\* a run starts from nothing: no merged record of an earlier run is kept
StaleRelationships == relationships
FreshRelationships == <<>>

Rerun ==
    /\ run = 1
    /\ pc \in {"done", "failed"}
    /\ run' = 2
    /\ loaded' = 0
    /\ pc' = "load"
    /\ entities' = EmptyGraph
    /\ relationships' = FreshRelationships
    /\ error' = NoError
    /\ prevSite' = site
    /\ site' = EmptySite
    /\ UNCHANGED <<dupPolicy, sources, notCompiler>>

Next ==
    \/ LoadNext
    \/ LoadAgain
    \/ ValidateReferences
    \/ ProjectNetworkView
    \/ ProjectEntitiesMeta
    \/ ProjectRelationshipsIndex
    \/ ProjectEntityDocument
    \/ Finish
    \/ Rerun

Spec == Init /\ [][Next]_vars

TypeOK ==
    /\ pc \in {"load", "project", "done", "failed"}
    /\ run \in {1, 2}
    /\ loaded \in 0..MaxDocs

\* ==================================================================== claims
\* What the claims speak about, read off the source documents and the
\* written files only.

\* ---------------------------------------------------------------- the pages
\* no build is running
CompilerIdle ==
    /\ dupPolicy = "reject"
    /\ sources = <<>>
    /\ run = 1
    /\ loaded = 0
    /\ pc = "load"
    /\ entities = EmptyGraph
    /\ relationships = <<>>
    /\ error = NoError
    /\ site = EmptySite
    /\ prevSite = EmptySite

notNet == <<vars, pageVars, oldVars>>
notPage == <<vars, netVars, oldVars>>
notOld == <<vars, netVars, pageVars>>

\* ------------------------------------------------------------ network page
\* network.json as served: the network view of a compiled site
GraphAB == MergeEntities(EmptyGraph, <<EntA, EntB>>)
GraphA == MergeEntities(EmptyGraph, <<EntA>>)
NetworkJsonPool == {NetworkView(GraphAB, <<RelAB, RelBA>>), NetworkView(GraphA, <<>>)}

\* `entities/${nodeId}.html`
EntityPageUrl(nodeId) == [path |-> <<"entities", nodeId, ".html">>, hash |-> <<>>]
\* `entities/entity.html#${nodeId}`
EntityViewerUrl(nodeId) == [path |-> <<"entities", "entity", ".html">>, hash |-> <<"#", nodeId>>]

\* window.location.hash.slice(1)
getEntityIdFromHash(loc) == IF Len(loc.hash) < 2 THEN "" ELSE loc.hash[2]

NetInit ==
    /\ CompilerIdle
    /\ PageClosed
    /\ OldClosed
    /\ networkJs \in {"part_000", "part_001"}
    /\ visLoaded \in BOOLEAN
    /\ netPc = "init"
    /\ container = [html |-> "", loaded |-> FALSE]
    /\ network = FALSE
    /\ networkData = <<>>
    /\ params = NoClick
    /\ location = IndexUrl
    /\ opened = {}
    /\ resizeTimeout = NoTimer
    /\ initialFit = FALSE
    /\ fits = 0

\* catch (error): the error message replaces the content of the container
NetCatch ==
    /\ container' = [container EXCEPT !.html = "error"]
    /\ netPc' = "settled"

\* DOMContentLoaded: the loading message is shown and network.json requested
NetDOMContentLoaded ==
    /\ netPc = "init"
    /\ container' = [container EXCEPT !.html = "loading"]
    /\ netPc' = "fetch"
    /\ UNCHANGED <<notNet, networkJs, visLoaded, network, networkData, params, location, opened,
                   resizeTimeout, initialFit, fits>>

\* await fetch('data/network.json'): rejected, answered not OK, or answered OK
NetFetchSettled ==
    /\ netPc = "fetch"
    /\ \E outcome \in {"rejected", "not_ok", "ok"} :
          IF outcome = "ok"
          THEN netPc' = "json" /\ UNCHANGED container
          ELSE NetCatch
    /\ UNCHANGED <<notNet, networkJs, visLoaded, network, networkData, params, location, opened,
                   resizeTimeout, initialFit, fits>>

\* await response.json(), then the rest of the try block: the container is
\* cleared and given the class 'loaded', then new vis.Network(...) is called,
\* which throws when the library is missing
NetJsonSettled ==
    /\ netPc = "json"
    /\ \/ /\ NetCatch                                  \* invalid JSON
          /\ UNCHANGED <<network, networkData, initialFit>>
       \/ \E data \in NetworkJsonPool :
             /\ networkData' = <<data>>
             /\ netPc' = "settled"
             /\ network' = visLoaded
             /\ initialFit' = visLoaded
             /\ container' = [html |-> IF visLoaded THEN "graph" ELSE "error",
                              loaded |-> TRUE]
    /\ UNCHANGED <<notNet, networkJs, visLoaded, params, location, opened, resizeTimeout, fits>>

NodeIds == {networkData[1].nodes[i].id : i \in 1..Len(networkData[1].nodes)}

\* part_000: every click on a node goes to the entity viewer
OnClickViewer(p) ==
    IF Len(p.nodes) > 0
    THEN /\ location' = EntityViewerUrl(p.nodes[1])
         /\ netPc' = "left"
         /\ UNCHANGED opened
    ELSE UNCHANGED <<location, netPc, opened>>

\* part_001: a click on a node goes to the page of the entity, in a new tab
\* when the ctrl key is held
OnClickPage(p) ==
    IF Len(p.nodes) > 0
    THEN IF p.ctrlKey
         THEN /\ opened' = opened \cup {EntityPageUrl(p.nodes[1])}
              /\ UNCHANGED <<location, netPc>>
         ELSE /\ location' = EntityPageUrl(p.nodes[1])
              /\ netPc' = "left"
              /\ UNCHANGED opened
    ELSE UNCHANGED <<location, netPc, opened>>

\* network.on('click')
OnClick ==
    /\ netPc = "settled"
    /\ network
    /\ \E nodes \in {<<>>} \cup {<<n>> : n \in NodeIds}, ctrlKey \in BOOLEAN :
          LET p == [nodes |-> nodes, ctrlKey |-> ctrlKey]
          IN /\ params' = p
             /\ IF networkJs = "part_000" THEN OnClickViewer(p) ELSE OnClickPage(p)
    /\ UNCHANGED <<notNet, networkJs, visLoaded, container, network, networkData,
                   resizeTimeout, initialFit, fits>>

\* clearTimeout(id) on the timers that are pending
ClearTimeoutNothing(pending, id) == pending
ClearTimeout(pending, id) == pending \ {id}

\* window 'resize': the timer resizeTimeout holds is cleared and a new one is
\* set, whose id resizeTimeout then holds
OnResize ==
    /\ netPc = "settled"
    /\ network
    /\ fits < MaxFits
    /\ resizeTimeout.id < MaxResizes
    /\ resizeTimeout' = [id |-> resizeTimeout.id + 1,
                         pending |-> ClearTimeout(resizeTimeout.pending, resizeTimeout.id)
                                     \cup {resizeTimeout.id + 1}]
    /\ UNCHANGED <<notNet, networkJs, visLoaded, netPc, container, network, networkData, params,
                   location, opened, initialFit, fits>>

\* a pending resize timer fires, 250 ms after it was set: network.fit()
ResizeTimerFires ==
    /\ netPc = "settled"
    /\ \E t \in resizeTimeout.pending :
          resizeTimeout' = [resizeTimeout EXCEPT !.pending = @ \ {t}]
    /\ fits' = fits + 1
    /\ UNCHANGED <<notNet, networkJs, visLoaded, netPc, container, network, networkData, params,
                   location, opened, initialFit>>

\* 500 ms after the graph was created
InitialFitFires ==
    /\ netPc = "settled"
    /\ initialFit
    /\ initialFit' = FALSE
    /\ fits' = fits + 1
    /\ UNCHANGED <<notNet, networkJs, visLoaded, netPc, container, network, networkData, params,
                   location, opened, resizeTimeout>>

NetNext ==
    \/ NetDOMContentLoaded
    \/ NetFetchSettled
    \/ NetJsonSettled
    \/ OnClick
    \/ OnResize
    \/ ResizeTimerFires
    \/ InitialFitFires

NetSpec == NetInit /\ [][NetNext]_netVars

\* -------------------------------------------------------------- entity page
\* response.json() of an entity document: every image_links entry carries its
\* typeof, "string" for a bare URL and "object" for {url, alt, source, description}
ImgString(url) == [typeof |-> "string", value |-> url]
ImgObject(o) == [typeof |-> "object", value |-> o]

DocA == [id |-> "a", type |-> "person", name |-> "A", description |-> "about a",
         external_links |-> <<[url |-> "http://a", name |-> "site of a"]>>,
         image_links |-> <<ImgString("http://img/1"), ImgObject([url |-> "http://img/2"])>>,
         local_images |-> <<[path |-> "img/a.png", alt |-> "local a", filename |-> "a.png"]>>]
\* a property key as its characters, a property value with Array.isArray
KeyReleaseYear == <<"r", "e", "l", "e", "a", "s", "e", "_", "y", "e", "a", "r">>
KeyDateOfBirth == <<"d", "a", "t", "e", "_", "o", "f", "_", "b", "i", "r", "t", "h">>
KeyGenres == <<"g", "e", "n", "r", "e", "s">>
Scalar(v) == [isArray |-> FALSE, value |-> v]
List(elements) == [isArray |-> TRUE, value |-> elements]

\* Object.entries(properties) of B: keys without, with one and with two underscores
PropertiesB == <<[key |-> KeyReleaseYear, value |-> Scalar("1999")],
                 [key |-> KeyDateOfBirth, value |-> Scalar("1970-01-01")],
                 [key |-> KeyGenres, value |-> List(<<"drama", "war">>)]>>

DocB == [id |-> "b", type |-> "movie", name |-> "B",
         properties |-> PropertiesB,
         image_links |-> <<ImgObject([url |-> "http://img/3", alt |-> "three",
                                      source |-> "wiki", description |-> "poster"])>>]
DocC == [id |-> "c", type |-> "book", name |-> "C"]
EntityDocs == {DocA, DocB, DocC}

\* o[f] is truthy: the field is defined and is not ''
Truthy(o, f) == f \in DOMAIN o /\ o[f] # ""

\* one image_links entry as an image of the gallery, none when it is neither a
\* string nor an object with a url
ImageOfLinkStringsOnly(e, imgItem) ==
    IF imgItem.typeof = "string"
    THEN <<[src |-> imgItem.value, alt |-> <<e.name, " image">>, source |-> "Unknown"]>>
    ELSE <<>>
ImageOfLink(e, imgItem) ==
    IF imgItem.typeof = "string"
    THEN <<[src |-> imgItem.value, alt |-> <<e.name, " image">>, source |-> "Unknown"]>>
    ELSE IF imgItem.typeof = "object" /\ Truthy(imgItem.value, "url")
    THEN <<[src |-> imgItem.value.url,
            alt |-> IF Truthy(imgItem.value, "alt")
                    THEN <<imgItem.value.alt>> ELSE <<e.name, " image">>,
            source |-> IF Truthy(imgItem.value, "source")
                       THEN imgItem.value.source ELSE "Unknown"]>>
    ELSE <<>>

ImageOfLocal(img) == [src |-> img.path, alt |-> <<img.alt>>, source |-> "Local"]

\* the images array of renderImageGallery: image_links, then local_images
CollectImagesLocalsFirst(e) ==
    LET links == IF "image_links" \in DOMAIN e THEN e.image_links ELSE <<>>
        locals == IF "local_images" \in DOMAIN e THEN e.local_images ELSE <<>>
    IN [i \in 1..Len(locals) |-> ImageOfLocal(locals[i])]
       \o Flatten([i \in 1..Len(links) |-> ImageOfLink(e, links[i])])
CollectImages(e) ==
    LET links == IF "image_links" \in DOMAIN e THEN e.image_links ELSE <<>>
        locals == IF "local_images" \in DOMAIN e THEN e.local_images ELSE <<>>
    IN Flatten([i \in 1..Len(links) |-> ImageOfLink(e, links[i])])
       \o [i \in 1..Len(locals) |-> ImageOfLocal(locals[i])]

\* a .gallery-item as written by renderImageGallery
NewItem(img) ==
    [src |-> img.src, alt |-> img.alt, observerAdded |-> FALSE, loaded |-> FALSE,
     failed |-> FALSE, requests |-> 0, pending |-> 0, reported |-> FALSE]

\* document.querySelectorAll('.gallery-item:not([data-observer-added])')
NotObserverAddedFirstOnly(its, dom) ==
    {dom[i] : i \in {j \in 1..Len(dom) : j = 1 /\ ~its[dom[j]].observerAdded}}
NotObserverAdded(its, dom) == {dom[i] : i \in {j \in 1..Len(dom) : ~its[dom[j]].observerAdded}}

\* this.images of updateImages
ImagesOf(its, dom) ==
    [i \in 1..Len(dom) |->
        [src |-> its[dom[i]].src,
         alt |-> IF its[dom[i]].alt = <<>> \/ its[dom[i]].alt = <<"">>
                 THEN <<"Gallery image">> ELSE its[dom[i]].alt,
         element |-> dom[i]]]

\* setupLazyLoading: a new observer, which observes and marks the items of
\* the document that are not marked yet
SetupLazyLoading(its, dom) ==
    /\ observer' = observer + 1
    /\ observed' = observed \cup {<<observer + 1, u>> : u \in NotObserverAdded(its, dom)}
    /\ items' = [u \in DOMAIN its |->
                    IF u \in NotObserverAdded(its, dom)
                    THEN [its[u] EXCEPT !.observerAdded = TRUE] ELSE its[u]]

\* updateImages: this.images and the total of the lightbox counter
UpdateImages(its, dom, lb) ==
    /\ images' = ImagesOf(its, dom)
    /\ lightbox' = [lb EXCEPT !.total = Len(dom)]

\* renderImageGallery: the section is hidden when there is no image; else the
\* gallery is rewritten and initializeGalleryForEntity run on it
RenderImageGallery(e) ==
    LET imgs == CollectImages(e)
        n == Cardinality(DOMAIN items)
        its == [u \in 1..(n + Len(imgs)) |-> IF u <= n THEN items[u] ELSE NewItem(imgs[u - n])]
        dom == [i \in 1..Len(imgs) |-> n + i]
    IN IF Len(imgs) = 0
       THEN UNCHANGED <<items, galleryItems, observer, observed, images, lightbox>>
       ELSE /\ galleryItems' = dom
            /\ SetupLazyLoading(its, dom)
            /\ UpdateImages(its, dom, [lightbox EXCEPT !.total = Len(imgs)])

\* the sections renderEntity sets display none on
HiddenSections(e, rels) ==
    {s \in {"entity-description"} : ~Truthy(e, "description")}
    \cup {s \in {"entity-properties"} :
            "properties" \notin DOMAIN e \/ DOMAIN e.properties = {}}
    \cup {s \in {"entity-external-links"} :
            "external_links" \notin DOMAIN e \/ Len(e.external_links) = 0}
    \cup {s \in {"entity-gallery"} : Len(CollectImages(e)) = 0}
    \cup {s \in {"entity-relationships"} :
            \A i \in 1..Len(rels) :
                rels[i].to # e.id /\ rels[i].from # e.id}

\* the items of a relationship list: those whose other end is in the metadata
RelationshipItems(rels, meta, end) ==
    LET known == SelectSeq(rels, LAMBDA r : r[end] \in DOMAIN meta)
    IN [i \in 1..Len(known) |->
          [href |-> <<"#", meta[known[i][end]].id>>, name |-> meta[known[i][end]].name,
           type |-> known[i].type]]

\* String.prototype.toUpperCase on one character
LowerCase == <<"a", "b", "c", "d", "e", "f", "g", "h", "i", "j", "k", "l", "m", "n", "o", "p", "q", "r", "s", "t", "u", "v", "w", "x", "y", "z">>
UpperCase == <<"A", "B", "C", "D", "E", "F", "G", "H", "I", "J", "K", "L", "M", "N", "O", "P", "Q", "R", "S", "T", "U", "V", "W", "X", "Y", "Z">>
toUpperCase(c) ==
    IF \E i \in 1..Len(LowerCase) : LowerCase[i] = c
    THEN UpperCase[CHOOSE i \in 1..Len(LowerCase) : LowerCase[i] = c]
    ELSE c

\* \w of a regular expression: a letter, a digit or the underscore
WordChar(c) ==
    \/ \E i \in 1..Len(LowerCase) : c = LowerCase[i] \/ c = UpperCase[i]
    \/ c \in {"0", "1", "2", "3", "4", "5", "6", "7", "8", "9", "_"}

\* key.replace('_', ' '): a string pattern replaces its first occurrence
ReplaceFirstUnderscore(key) ==
    IF \E i \in 1..Len(key) : key[i] = "_"
    THEN [key EXCEPT ![CHOOSE i \in 1..Len(key) :
                         key[i] = "_" /\ \A j \in 1..(i - 1) : key[j] # "_"] = " "]
    ELSE key

\* .replace(/\b\w/g, l => l.toUpperCase()): a word character that follows
\* no word character is upper-cased
UpperCaseWordStarts(str) ==
    [i \in 1..Len(str) |->
        IF WordChar(str[i]) /\ (i = 1 \/ ~WordChar(str[i - 1]))
        THEN toUpperCase(str[i]) ELSE str[i]]

\* displayKey of renderProperties
displayKey(key) == UpperCaseWordStarts(ReplaceFirstUnderscore(key))

\* value.join(', ') of an array as the parts of the string, else the value
RECURSIVE Join(_, _)
Join(elements, sep) ==
    IF Len(elements) = 0 THEN <<>>
    ELSE IF Len(elements) = 1 THEN <<elements[1]>>
    ELSE <<elements[1], sep>> \o Join(Tail(elements), sep)
displayValue(value) == IF value.isArray THEN Join(value.value, ", ") ELSE <<value.value>>

\* renderProperties: one line per entry of Object.entries(properties)
renderProperties(props) ==
    [i \in 1..Len(props) |->
        [key |-> displayKey(props[i].key), value |-> displayValue(props[i].value)]]

\* renderEntity without the gallery: header, description, properties, links
\* and relationships; a section without data is hidden and keeps its content
RenderSections(e, rels, meta) ==
    LET incoming == SelectSeq(rels, LAMBDA r : r.to = e.id)
        outgoing == SelectSeq(rels, LAMBDA r : r.from = e.id)
        hide == HiddenSections(e, rels)
    IN [name |-> e.name,
        type |-> e.type,
        description |-> IF "entity-description" \in hide THEN rendered.description
                        ELSE <<e.description>>,
        properties |-> IF "entity-properties" \in hide THEN rendered.properties
                       ELSE <<renderProperties(e.properties)>>,
        links |-> IF "entity-external-links" \in hide THEN rendered.links
                  ELSE e.external_links,
        headings |-> IF "entity-relationships" \in hide THEN rendered.headings
                     ELSE {h \in {"Incoming Relationships"} : Len(incoming) > 0}
                          \cup {h \in {"Outgoing Relationships"} : Len(outgoing) > 0},
        incoming |-> IF "entity-relationships" \in hide THEN rendered.incoming
                     ELSE RelationshipItems(incoming, meta, "from"),
        outgoing |-> IF "entity-relationships" \in hide THEN rendered.outgoing
                     ELSE RelationshipItems(outgoing, meta, "to"),
        display |-> rendered.display \cup hide]

showErrorKeepingContent ==
    /\ entityLoading' = "none"
    /\ entityError' = entityError \ {"hidden"}
    /\ UNCHANGED entityContent
showError ==
    /\ entityLoading' = "none"
    /\ entityContent' = entityContent \cup {"hidden"}
    /\ entityError' = entityError \ {"hidden"}

showContentKeepingError ==
    /\ entityLoading' = "none"
    /\ entityContent' = entityContent \ {"hidden"}
    /\ UNCHANGED entityError
showContent ==
    /\ entityLoading' = "none"
    /\ entityError' = entityError \cup {"hidden"}
    /\ entityContent' = entityContent \ {"hidden"}

\* the relationships array after renderRelationships has read it:
\* Array.prototype.filter builds new arrays and leaves its own as it was
RelationshipsReversed(rels) == [i \in 1..Len(rels) |-> rels[Len(rels) + 1 - i]]
RelationshipsAfterRender(rels) == rels

\* the end of loadAndDisplayEntity once the entity document is parsed:
\* renderEntity, showContent, document.title
Display(e, rels, meta) ==
    /\ rendered' = RenderSections(e, rels, meta)
    /\ relationshipsData' = <<RelationshipsAfterRender(rels)>>
    /\ RenderImageGallery(e)
    /\ entity' = <<e>>
    /\ showContent
    /\ title' = <<e.name, " - DataLink">>

\* ------------------------------------------------------------- entity.js
\* the site as served: entities-meta.json, relationships.json, entities/{id}.json
ServedMeta == [id \in {d.id : d \in EntityDocs} |->
                 LET d == CHOOSE x \in EntityDocs : x.id = id
                 IN [id |-> d.id, name |-> d.name, type |-> d.type]]
ServedRelationships == <<RelAB, RelBA>>

\* relationships.json of other sites: one with a relationship of an entity
\* to itself, one whose relationship names an entity the metadata lacks
RelAA == [from |-> "a", to |-> "a", type |-> "cites"]
RelZC == [from |-> "z", to |-> "c", type |-> "knows"]
RelationshipsPool == {ServedRelationships, <<RelAA, RelAB, RelBA>>, <<RelZC, RelAB>>}
ServedEntity(id) == CHOOSE d \in EntityDocs : d.id = id

\* hashes the page is opened with or sent to: none, entities, an unknown id,
\* and an unknown id that names a property every object inherits
HashPool == {"", "a", "b", "x", "constructor"}

\* the property names a parsed JSON object inherits from Object.prototype
ObjectPrototype == {"constructor"}

\* entitiesMetaData[entityId] is truthy: an own key of the metadata, whose
\* values are objects, or an inherited property
MetaHas(meta, entityId) == entityId \in DOMAIN meta \/ entityId \in ObjectPrototype

MetaUrl == <<"..", "data", "entities-meta.json">>
RelationshipsUrl == <<"..", "data", "relationships.json">>
NetworkUrl == <<"..", "data", "network.json">>
\* `../data/entities/${entityId}.json`
EntityUrl(entityId) == <<"..", "data", "entities", entityId, ".json">>

\* the fetches of loadSharedData
SharedUrlsWithNetwork == {MetaUrl, RelationshipsUrl, NetworkUrl}
SharedUrls == {MetaUrl, RelationshipsUrl}

\* !entitiesMetaData || !relationshipsData
NeedsSharedDataAlways == TRUE
NeedsSharedData == entitiesMetaData = <<>> \/ relationshipsData = <<>>

\* call i of loadAndDisplayEntity moves to position at
At(i, at) == calls' = [calls EXCEPT ![i].at = at]

\* a call of loadAndDisplayEntity: its entityId, its position, what became of
\* its loadSharedData (none, pending, ok, failed) and the panel it ended with
Call(entityId) == [entityId |-> entityId, at |-> "start", shared |-> "none", ended |-> ""]

\* call i ends in showError, in loadSharedData if it was still pending
Fail(i) ==
    /\ calls' = [calls EXCEPT ![i].at = "done", ![i].ended = "error",
                              ![i].shared = IF @ = "pending" THEN "failed" ELSE @]
    /\ showError

\* loadAndDisplayEntity from the metadata check on: an id that is no key of
\* the metadata is an error, else the document of the entity is requested
CheckAndLoad(cs, i, meta) ==
    IF ~MetaHas(meta, cs[i].entityId)
    THEN /\ calls' = [cs EXCEPT ![i].at = "done", ![i].ended = "error"]
         /\ showError
         /\ UNCHANGED requests
    ELSE /\ calls' = [cs EXCEPT ![i].at = "entity"]
         /\ requests' = requests \cup {[by |-> i, url |-> EntityUrl(cs[i].entityId)]}
         /\ UNCHANGED <<entityLoading, entityContent, entityError>>

\* loadAndDisplayEntity up to its first await
loadAndDisplayEntity(entityId) ==
    LET i == Len(calls) + 1
        cs == Append(calls, Call(entityId))
    IN IF entityId = ""
       THEN /\ calls' = [cs EXCEPT ![i].at = "done", ![i].ended = "error"]
            /\ showError
            /\ UNCHANGED requests
       ELSE IF NeedsSharedData
       THEN /\ calls' = [cs EXCEPT ![i].at = "shared", ![i].shared = "pending"]
            /\ requests' = requests \cup {[by |-> i, url |-> u] : u \in SharedUrls}
            /\ UNCHANGED <<entityLoading, entityContent, entityError>>
       ELSE CheckAndLoad(cs, i, entitiesMetaData[1])

EntInit ==
    /\ CompilerIdle
    /\ NetClosed
    /\ OldClosed
    /\ pagePc = "loading"
    /\ hash \in HashPool
    /\ PageMarkup

\* the DOMContentLoaded listener of entity.js: the hashchange listener is
\* added and the entity of the hash loaded
EntityDOMContentLoaded ==
    /\ pagePc = "loading"
    /\ pagePc' = "entity"
    /\ loadAndDisplayEntity(hash)
    /\ UNCHANGED <<hash, entitiesMetaData, relationshipsData, rendered, title, entity,
                   items, galleryItems, observer, observed, images, currentImageIndex,
                   lightbox, bodyOverflow, event, notPage>>

\* hashchange: a link of the page, the address bar, back or forward
HashChange ==
    /\ pagePc = "ready"
    /\ Len(calls) < MaxCalls
    /\ \E h \in HashPool \ {hash} :
          /\ hash' = h
          /\ loadAndDisplayEntity(h)
    /\ UNCHANGED <<pagePc, entitiesMetaData, relationshipsData, rendered, title,
                   entity, items, galleryItems, observer, observed, images,
                   currentImageIndex, lightbox, bodyOverflow, event, notPage>>

\* await Promise.all([fetch(meta), fetch(relationships)]) of call i: a fetch
\* was rejected, a response was not OK, or both were OK
SharedSettles ==
    /\ pagePc = "ready"
    /\ \E i \in 1..Len(calls), outcome \in {"rejected", "not_ok", "ok"} :
          /\ calls[i].at = "shared"
          /\ IF outcome = "ok"
             THEN At(i, "meta_json") /\ UNCHANGED <<entityLoading, entityContent, entityError>>
             ELSE Fail(i)
    /\ UNCHANGED <<pagePc, hash, entitiesMetaData, relationshipsData, requests,
                   rendered, title, entity, items, galleryItems, observer, observed,
                   images, currentImageIndex, lightbox, bodyOverflow, event, notPage>>

\* entitiesMetaData = await entitiesResponse.json()
MetaJsonSettles ==
    /\ pagePc = "ready"
    /\ \E i \in 1..Len(calls), ok \in BOOLEAN :
          /\ calls[i].at = "meta_json"
          /\ IF ok
             THEN /\ entitiesMetaData' = <<ServedMeta>>
                  /\ At(i, "rels_json")
                  /\ UNCHANGED <<entityLoading, entityContent, entityError>>
             ELSE Fail(i) /\ UNCHANGED entitiesMetaData
    /\ UNCHANGED <<pagePc, hash, relationshipsData, requests, rendered, title, entity,
                   items, galleryItems, observer, observed, images, currentImageIndex,
                   lightbox, bodyOverflow, event, notPage>>

\* relationshipsData = await relationshipsResponse.json(); loadSharedData
\* returns and loadAndDisplayEntity goes on
RelsJsonSettles ==
    /\ pagePc = "ready"
    /\ \E i \in 1..Len(calls), ok \in BOOLEAN :
          /\ calls[i].at = "rels_json"
          /\ IF ok
             THEN /\ relationshipsData' = <<ServedRelationships>>
                  /\ CheckAndLoad([calls EXCEPT ![i].shared = "ok"], i,
                                  entitiesMetaData[1])
             ELSE Fail(i) /\ UNCHANGED <<relationshipsData, requests>>
    /\ UNCHANGED <<pagePc, hash, entitiesMetaData, rendered, title, entity, items,
                   galleryItems, observer, observed, images, currentImageIndex,
                   lightbox, bodyOverflow, event, notPage>>

\* await fetch(`../data/entities/${entityId}.json`) of call i: the response
\* is OK only for a document the site has
EntitySettles ==
    /\ pagePc = "ready"
    /\ \E i \in 1..Len(calls), outcome \in {"rejected", "not_ok", "ok"} :
          /\ calls[i].at = "entity"
          /\ outcome = "ok" => calls[i].entityId \in DOMAIN ServedMeta
          /\ IF outcome = "ok"
             THEN At(i, "entity_json") /\ UNCHANGED <<entityLoading, entityContent, entityError>>
             ELSE Fail(i)
    /\ UNCHANGED <<pagePc, hash, entitiesMetaData, relationshipsData, requests,
                   rendered, title, entity, items, galleryItems, observer, observed,
                   images, currentImageIndex, lightbox, bodyOverflow, event, notPage>>

\* await response.json() of the entity document, then renderEntity,
\* showContent and the title
EntityJsonSettles ==
    /\ pagePc = "ready"
    /\ \E i \in 1..Len(calls), ok \in BOOLEAN :
          /\ calls[i].at = "entity_json"
          /\ IF ok
             THEN /\ calls' = [calls EXCEPT ![i].at = "done", ![i].ended = "content"]
                  /\ Display(ServedEntity(calls[i].entityId), relationshipsData[1],
                             entitiesMetaData[1])
             ELSE /\ Fail(i)
                  /\ UNCHANGED <<relationshipsData, rendered, title, entity, items,
                                 galleryItems, observer, observed, images, lightbox>>
    /\ UNCHANGED <<pagePc, hash, entitiesMetaData, requests,
                   currentImageIndex, bodyOverflow, event, notPage>>

\* ------------------------------------------------------------ gallery.js
\* the gallery is on screen: the content panel and the gallery section are shown
Keys == {"Escape", "ArrowLeft", "ArrowRight", "Enter"}

\* a user event on the page, with the lightbox as the event found it
UserEvent(kind, key) ==
    [n |-> event.n + 1, kind |-> kind, key |-> key,
     active |-> "active" \in lightbox.classes, index |-> currentImageIndex]

GalleryVisible == "hidden" \notin entityContent /\ "entity-gallery" \notin rendered.display

\* entity.html opened without a hash
GalInit ==
    /\ CompilerIdle
    /\ NetClosed
    /\ OldClosed
    /\ pagePc = "loading"
    /\ hash = ""
    /\ PageMarkup

\* setupGallery, the DOMContentLoaded listener of gallery.js: setupLazyLoading,
\* setupLightbox, bindEvents
SetupGallery ==
    /\ pagePc = "entity"
    /\ pagePc' = "ready"
    /\ SetupLazyLoading(items, galleryItems)
    /\ UpdateImages(items, galleryItems, lightbox)
    /\ UNCHANGED <<hash, entitiesMetaData, relationshipsData, calls, requests,
                   entityLoading, entityContent, entityError, rendered, title, entity,
                   galleryItems, currentImageIndex, bodyOverflow, event, notPage>>

\* an entity document arrives and is displayed: what the fetches of entity.js
\* end in, for any entity of the site; the shared data is the cached one, or
\* the one the first navigation loaded
DisplayEntity ==
    /\ pagePc = "ready"
    /\ Len(calls) < MaxCalls
    /\ \E e \in EntityDocs, rels \in RelationshipsPool :
          /\ rels = IF NeedsSharedData THEN rels ELSE relationshipsData[1]
          /\ hash' = e.id
          /\ calls' = Append(calls, [Call(e.id) EXCEPT
                                       !.at = "done", !.ended = "content",
                                       !.shared = IF NeedsSharedData THEN "ok" ELSE "none"])
          /\ entitiesMetaData' = <<ServedMeta>>
          /\ Display(e, rels, ServedMeta)
    /\ UNCHANGED <<pagePc, requests, currentImageIndex, bodyOverflow, event, notPage>>

\* the callback of the IntersectionObserver loads the image of an entry that
\* is intersecting
ShouldLoadAlways(isIntersecting) == TRUE
ShouldLoad(isIntersecting) == isIntersecting

\* loadImage: nothing without a src or once the image has class 'loaded',
\* else a new Image() is given the src
loadImage(u, isIntersecting) ==
    IF items[u].src = "" \/ items[u].loaded
    THEN items' = [items EXCEPT ![u].reported = @ \/ isIntersecting]
    ELSE items' = [items EXCEPT ![u].reported = @ \/ isIntersecting,
                                ![u].requests = @ + 1,
                                ![u].pending = @ + 1]

\* the image requests started so far
RECURSIVE RequestsUpTo(_)
RequestsUpTo(n) == IF n = 0 THEN 0 ELSE items[n].requests + RequestsUpTo(n - 1)
ImageRequests == RequestsUpTo(Cardinality(DOMAIN items))

\* observer o reports element u: intersecting only if u is on screen
IntersectionCallback ==
    /\ pagePc = "ready"
    /\ \E pair \in observed, isIntersecting \in BOOLEAN :
          LET u == pair[2]
          IN /\ isIntersecting =>
                   GalleryVisible /\ \E i \in 1..Len(galleryItems) : galleryItems[i] = u
             /\ ImageRequests < MaxRequests
             /\ IF ShouldLoad(isIntersecting)
                THEN loadImage(u, isIntersecting)
                ELSE UNCHANGED items
    /\ UNCHANGED <<pagePc, hash, entitiesMetaData, relationshipsData, calls, requests,
                   entityLoading, entityContent, entityError, rendered, title, entity,
                   galleryItems, observer, observed, images, currentImageIndex,
                   lightbox, bodyOverflow, event, notPage>>

\* imageLoader.onload / imageLoader.onerror: this.observer stops observing
ImageLoaderSettles ==
    /\ \E u \in DOMAIN items, ok \in BOOLEAN :
          /\ items[u].pending > 0
          /\ items' = [items EXCEPT ![u].pending = @ - 1,
                                    ![u].loaded = @ \/ ok,
                                    ![u].failed = @ \/ ~ok]
          /\ observed' = observed \ {<<observer, u>>}
    /\ UNCHANGED <<pagePc, hash, entitiesMetaData, relationshipsData, calls, requests,
                   entityLoading, entityContent, entityError, rendered, title, entity,
                   galleryItems, observer, images, currentImageIndex, lightbox,
                   bodyOverflow, event, notPage>>

\* updateLightboxImage for index i of imgs; past the end of imgs the read of
\* currentImage.src throws before anything is written
LightboxImage(lb, imgs, i) ==
    IF Len(imgs) = 0 \/ i + 1 \notin 1..Len(imgs) THEN lb
    ELSE [lb EXCEPT !.src = imgs[i + 1].src,
                    !.alt = imgs[i + 1].alt,
                    !.current = i + 1,
                    !.prevDisabled = (i = 0),
                    !.nextDisabled = (i = Len(imgs) - 1)]

\* openLightbox(index)
openLightbox(index) ==
    LET imgs == ImagesOf(items, galleryItems)
        lb == [lightbox EXCEPT !.total = Len(imgs)]
    IN /\ images' = imgs
       /\ IF Len(imgs) = 0
          THEN /\ lightbox' = lb
               /\ UNCHANGED <<currentImageIndex, bodyOverflow>>
          ELSE /\ currentImageIndex' = index
               /\ lightbox' = [LightboxImage(lb, imgs, index)
                                 EXCEPT !.classes = (@ \ {"hidden"}) \cup {"active"}]
               /\ bodyOverflow' = "hidden"

closeLightbox ==
    /\ lightbox' = [lightbox EXCEPT !.classes = @ \ {"active"}]
    /\ bodyOverflow' = ""
    /\ UNCHANGED <<images, currentImageIndex>>

previousImage ==
    IF currentImageIndex > 0
    THEN /\ currentImageIndex' = currentImageIndex - 1
         /\ lightbox' = LightboxImage(lightbox, images, currentImageIndex - 1)
         /\ UNCHANGED <<images, bodyOverflow>>
    ELSE UNCHANGED <<images, currentImageIndex, lightbox, bodyOverflow>>

nextImage ==
    IF currentImageIndex < Len(images) - 1
    THEN /\ currentImageIndex' = currentImageIndex + 1
         /\ lightbox' = LightboxImage(lightbox, images, currentImageIndex + 1)
         /\ UNCHANGED <<images, bodyOverflow>>
    ELSE UNCHANGED <<images, currentImageIndex, lightbox, bodyOverflow>>

\* a click on the i-th gallery item of the document
ClickGalleryItem ==
    /\ pagePc = "ready"
    /\ GalleryVisible
    /\ event.n < MaxEvents
    /\ event' = UserEvent("click", "item")
    /\ \E i \in 1..Len(galleryItems) : openLightbox(i - 1)
    /\ UNCHANGED <<pagePc, hash, entitiesMetaData, relationshipsData, calls, requests,
                   entityLoading, entityContent, entityError, rendered, title, entity,
                   items, galleryItems, observer, observed, notPage>>

\* the lightbox keys act on a lightbox with class 'active' only
KeysActAlways == TRUE
KeysAct == "active" \in lightbox.classes

\* the keydown listener of the lightbox controls
LightboxKey(key) ==
    IF ~KeysAct THEN UNCHANGED <<images, currentImageIndex, lightbox, bodyOverflow>>
    ELSE IF key = "Escape" THEN closeLightbox
    ELSE IF key = "ArrowLeft" THEN previousImage
    ELSE IF key = "ArrowRight" THEN nextImage
    ELSE UNCHANGED <<images, currentImageIndex, lightbox, bodyOverflow>>

\* a keydown on the document: Enter or space on a gallery item opens the
\* lightbox on it, every other key goes to the lightbox controls
Keydown ==
    /\ pagePc = "ready"
    /\ event.n < MaxEvents
    /\ \E key \in Keys, target \in 0..Len(galleryItems) :
          /\ event' = UserEvent("keydown", key)
          /\ target > 0 => GalleryVisible
          /\ IF target > 0 /\ key \in {"Enter", " "}
             THEN openLightbox(target - 1)
             ELSE LightboxKey(key)
    /\ UNCHANGED <<pagePc, hash, entitiesMetaData, relationshipsData, calls, requests,
                   entityLoading, entityContent, entityError, rendered, title, entity,
                   items, galleryItems, observer, observed, notPage>>

\* a click on a control of the lightbox: close button, overlay, previous, next
ClickLightbox ==
    /\ pagePc = "ready"
    /\ "active" \in lightbox.classes
    /\ event.n < MaxEvents
    /\ \E control \in {"close", "overlay", "prev", "next"} :
          /\ event' = UserEvent("click", control)
          /\ IF control \in {"close", "overlay"} THEN closeLightbox
             ELSE IF control = "prev" THEN ~lightbox.prevDisabled /\ previousImage
             ELSE ~lightbox.nextDisabled /\ nextImage
    /\ UNCHANGED <<pagePc, hash, entitiesMetaData, relationshipsData, calls, requests,
                   entityLoading, entityContent, entityError, rendered, title, entity,
                   items, galleryItems, observer, observed, notPage>>

\* lazy loading: the gallery is rendered and its images come into view
LazyNext ==
    \/ EntityDOMContentLoaded
    \/ SetupGallery
    \/ DisplayEntity
    \/ IntersectionCallback
    \/ ImageLoaderSettles

LazySpec == GalInit /\ [][LazyNext]_pageVars

\* lightbox: the gallery is rendered and the user clicks and types
LightboxNext ==
    \/ EntityDOMContentLoaded
    \/ SetupGallery
    \/ DisplayEntity
    \/ ClickGalleryItem
    \/ Keydown
    \/ ClickLightbox

LightboxSpec == GalInit /\ [][LightboxNext]_pageVars

EntNext ==
    \/ EntityDOMContentLoaded
    \/ SetupGallery
    \/ HashChange
    \/ SharedSettles
    \/ MetaJsonSettles
    \/ RelsJsonSettles
    \/ EntitySettles
    \/ EntityJsonSettles

EntSpec == EntInit /\ [][EntNext]_pageVars

\* ------------------------------------- lightbox of docs/javascripts/entity.js
\* the galleries renderImageGallery of docs/javascripts/entity.js has written:
\* one item per image, its data-src the URL or the path
OldGalleryPool == {<<"http://img/3">>, <<"http://img/1", "http://img/2", "img/a.png">>}

\* the page is open and shows an entity with images; the total of the
\* counter was written by renderImageGallery
OldInit ==
    /\ CompilerIdle
    /\ NetClosed
    /\ PageClosed
    /\ oldPc = "ready"
    /\ oldItems \in OldGalleryPool
    /\ oldLightbox = [classes |-> {"hidden"}, src |-> "", current |-> 1,
                      total |-> Len(oldItems)]
    /\ oldOverflow = ""
    /\ closures = <<>>
    /\ keydownHandlers = {}

\* what the functions of the lightbox read and write: the closures, the
\* lightbox, body overflow and the keydown listeners of document
OldState == [closures |-> closures, lightbox |-> oldLightbox, overflow |-> oldOverflow,
             handlers |-> keydownHandlers]

\* updateLightboxImage of call c: image and counter from its currentIndex
updateEntityLightboxImage(st, c) ==
    [st EXCEPT !.lightbox.src = st.closures[c].images[st.closures[c].currentIndex + 1],
               !.lightbox.current = st.closures[c].currentIndex + 1,
               !.lightbox.total = Len(st.closures[c].images)]

\* closeLightbox of openEntityLightbox
closeEntityLightbox(st) ==
    [st EXCEPT !.lightbox.classes = (@ \cup {"hidden"}) \ {"active"},
               !.overflow = ""]

\* the prev button and ArrowLeft of call c
oldPrevious(st, c) ==
    IF st.closures[c].currentIndex > 0
    THEN updateEntityLightboxImage([st EXCEPT !.closures[c].currentIndex = @ - 1], c)
    ELSE st

\* the next button and ArrowRight of call c
oldNext(st, c) ==
    IF st.closures[c].currentIndex < Len(st.closures[c].images) - 1
    THEN updateEntityLightboxImage([st EXCEPT !.closures[c].currentIndex = @ + 1], c)
    ELSE st

\* handleKeydown of call c: Escape closes and removes this listener, the
\* arrows move the index of the call; other keys do nothing
handleKeydown(st, c, key) ==
    IF key = "Escape"
    THEN [closeEntityLightbox(st) EXCEPT !.handlers = @ \ {c}]
    ELSE IF key = "ArrowLeft" THEN oldPrevious(st, c)
    ELSE IF key = "ArrowRight" THEN oldNext(st, c)
    ELSE st

\* a keydown event on document: the listeners registered when it is
\* dispatched run in the order they were added
RECURSIVE DispatchKeydown(_, _, _)
DispatchKeydown(st, listeners, key) ==
    IF listeners = {} THEN st
    ELSE LET c == CHOOSE x \in listeners : \A y \in listeners : x <= y
         IN DispatchKeydown(handleKeydown(st, c, key), listeners \ {c}, key)

\* the state st becomes the state of the page
OldBecomes(st) ==
    /\ closures' = st.closures
    /\ oldLightbox' = st.lightbox
    /\ oldOverflow' = st.overflow
    /\ keydownHandlers' = st.handlers

\* openEntityLightbox(index): a new closure over currentIndex and images, the
\* lightbox shown, the buttons bound to this call and handleKeydown of this
\* call added to document
openEntityLightbox(index) ==
    LET c == Len(closures) + 1
        st == [OldState EXCEPT !.closures = Append(@, [currentIndex |-> index,
                                                       images |-> oldItems])]
        shown == updateEntityLightboxImage(st, c)
    IN OldBecomes([shown EXCEPT !.lightbox.classes = (@ \ {"hidden"}) \cup {"active"},
                                !.overflow = "hidden",
                                !.handlers = @ \cup {c}])

\* a click, Enter or Space on a gallery item, which the open lightbox covers
OldClickItem ==
    /\ oldPc = "ready"
    /\ "active" \notin oldLightbox.classes
    /\ Len(closures) < MaxOpens
    /\ \E index \in 0..(Len(oldItems) - 1) : openEntityLightbox(index)
    /\ UNCHANGED <<oldPc, oldItems, notOld>>

\* a click on the close button or on the overlay: onclick is closeLightbox of
\* the last call
OldClickClose ==
    /\ oldPc = "ready"
    /\ "active" \in oldLightbox.classes
    /\ OldBecomes(closeEntityLightbox(OldState))
    /\ UNCHANGED <<oldPc, oldItems, notOld>>

\* a click on the prev or next button: onclick is the handler of the last call
OldClickArrow ==
    /\ oldPc = "ready"
    /\ "active" \in oldLightbox.classes
    /\ \E button \in {"prev", "next"} :
          OldBecomes(IF button = "prev" THEN oldPrevious(OldState, Len(closures))
                     ELSE oldNext(OldState, Len(closures)))
    /\ UNCHANGED <<oldPc, oldItems, notOld>>

\* a key is pressed, the lightbox open or not
OldKeydown ==
    /\ oldPc = "ready"
    /\ \E key \in Keys : OldBecomes(DispatchKeydown(OldState, keydownHandlers, key))
    /\ UNCHANGED <<oldPc, oldItems, notOld>>

OldNext ==
    \/ OldClickItem
    \/ OldClickClose
    \/ OldClickArrow
    \/ OldKeydown

OldSpec == OldInit /\ [][OldNext]_oldVars


\* every source record has the required fields of section 6
SourcesWellFormed ==
    /\ \A i \in 1..Len(SourceEntities) : {"id", "type", "name"} \subseteq DOMAIN SourceEntities[i]
    /\ \A i \in 1..Len(SourceRelationships) :
          {"from", "to", "type"} \subseteq DOMAIN SourceRelationships[i]

\* every record of the documents the current run has loaded has them
LoadedWellFormed ==
    \A d \in 1..loaded :
        /\ \A i \in 1..Len(sources[d].entities) :
              {"id", "type", "name"} \subseteq DOMAIN sources[d].entities[i]
        /\ \A i \in 1..Len(sources[d].relationships) :
              {"from", "to", "type"} \subseteq DOMAIN sources[d].relationships[i]

\* the ids of the source entities (of well-formed sources)
SourceIds == {SourceEntities[i].id : i \in 1..Len(SourceEntities)}

\* two source entity records share an id
SourcesHaveDuplicateId ==
    \E i, j \in 1..Len(SourceEntities) : i < j /\ SourceEntities[i].id = SourceEntities[j].id

\* the last source record with id k
LastWithId(k) ==
    LET at == {i \in 1..Len(SourceEntities) : SourceEntities[i].id = k}
    IN SourceEntities[CHOOSE i \in at : \A j \in at : j <= i]

\* a source relationship names an id that is no source entity
SourcesHaveDangling ==
    \E i \in 1..Len(SourceRelationships) :
        \/ SourceRelationships[i].from \notin SourceIds
        \/ SourceRelationships[i].to \notin SourceIds

EntityPaths == {p \in DOMAIN site : Len(p) = 3}

\* C1: referential integrity of the output: whenever relationships.json and
\* entities-meta.json are both written, the from and the to of every
\* relationship of relationships.json are keys of entities-meta.json.
C1_ReferentialIntegrity ==
    ({RelationshipsPath, MetaPath} \subseteq DOMAIN site) =>
        \A i \in 1..Len(site[RelationshipsPath]) :
            /\ site[RelationshipsPath][i].from \in DOMAIN site[MetaPath]
            /\ site[RelationshipsPath][i].to \in DOMAIN site[MetaPath]

\* a complete artifact set with relationships in both directions
C1_Witness ==
    /\ pc = "done"
    /\ MetaPath \in DOMAIN site
    /\ RelationshipsPath \in DOMAIN site
    /\ site[RelationshipsPath] = <<RelAB, RelBA>>

\* C2: atomic publication: a run that has ended has written either all four
\* artifact kinds (network.json, entities-meta.json, relationships.json and
\* one entity document per entity) or, when it failed, no artifact at all,
\* whatever the kind of the error and wherever the offending record sits.
C2_AtomicPublication ==
    /\ pc = "done" =>
          DOMAIN site = {NetworkPath, MetaPath, RelationshipsPath}
                            \cup {EntityPath(k) : k \in SourceIds}
    /\ pc = "failed" => DOMAIN site = {}

\* a run that failed on the last record of the last document, after two
\* entities had been merged
C2_Witness ==
    /\ pc = "failed"
    /\ error.kind = "referential"
    /\ Len(sources) = 2
    /\ Cardinality(DOMAIN entities.map) = 2
    /\ error.index = Len(relationships)

\* C3: a relationship whose from or to is no entity of the merged set makes
\* the run fail; the error names that relationship and the missing id; no run
\* with such a relationship reaches the projection of artifacts.
C3_DanglingFails ==
    /\ pc \in {"project", "done"} => ~SourcesHaveDangling
    /\ (pc = "failed" /\ error.kind = "referential") =>
          /\ error.index \in 1..Len(SourceRelationships)
          /\ error.relationship = SourceRelationships[error.index]
          /\ error.missing \in {error.relationship.from, error.relationship.to}
          /\ error.missing \notin SourceIds
          /\ DOMAIN site = {}

\* the scenario of section 8: a relationship to c, which is no entity
C3_Witness ==
    /\ pc = "failed"
    /\ error.kind = "referential"
    /\ error.relationship = RelAC
    /\ error.missing = "c"
    /\ {"a", "b"} \subseteq DOMAIN entities.map

C5_Cardinality ==
    NetworkPath \in DOMAIN site =>
        LET net == site[NetworkPath]
        IN /\ Len(net.nodes) = Cardinality(SourceIds)
           /\ {net.nodes[i].id : i \in 1..Len(net.nodes)} = SourceIds
           /\ Len(net.edges) = Len(SourceRelationships)

\* the same relationship authored twice, two edges written
C5_Witness ==
    /\ pc = "done"
    /\ SourceRelationships = <<RelAB, RelAB>>
    /\ Len(site[NetworkPath].edges) = 2
    /\ Len(site[NetworkPath].nodes) = 2

C8_MetaProjection ==
    MetaPath \in DOMAIN site =>
        LET meta == site[MetaPath]
        IN /\ DOMAIN meta = SourceIds
           /\ \A k \in DOMAIN meta :
                 /\ DOMAIN meta[k] = {"id", "name", "type"}
                 /\ meta[k].id = k
                 /\ meta[k].name = LastWithId(k).name
                 /\ meta[k].type = LastWithId(k).type

\* the metadata of an entity that has properties and images
C8_Witness ==
    /\ MetaPath \in DOMAIN site
    /\ "b" \in DOMAIN site[MetaPath]
    /\ LastWithId("b") = EntB
    /\ "a" \in DOMAIN site[MetaPath]

\* C9: relationships.json is the concatenation of the relationships of all
\* source documents, in document order and in record order, unchanged.
C9_RelationshipsVerbatim ==
    RelationshipsPath \in DOMAIN site => site[RelationshipsPath] = SourceRelationships

\* two documents with one relationship each, the one with properties first
C9_Witness ==
    /\ RelationshipsPath \in DOMAIN site
    /\ Len(sources) = 2
    /\ sources[1].relationships = <<RelBA>>
    /\ sources[2].relationships = <<RelAB>>
    /\ site[RelationshipsPath] = <<RelBA, RelAB>>

\* C10: schema errors are fatal: a run whose sources hold a record lacking a
\* required field is aborted; the error names the file and the index of a
\* record that lacks a required field, and no artifact is written.
C10_SchemaErrorsFatal ==
    /\ pc # "failed" => LoadedWellFormed
    /\ (pc \in {"project", "done"} \/ DOMAIN site # {}) => SourcesWellFormed
    /\ (pc = "failed" /\ error.kind = "schema") =>
          /\ DOMAIN site = {}
          /\ error.file \in 1..Len(sources)
          /\ error.section \in {"entities", "relationships"}
          /\ LET recs == IF error.section = "entities" THEN sources[error.file].entities
                         ELSE sources[error.file].relationships
                 required == IF error.section = "entities" THEN {"id", "type", "name"}
                             ELSE {"from", "to", "type"}
             IN /\ error.index \in 1..Len(recs)
                /\ ~(required \subseteq DOMAIN recs[error.index])
    /\ (pc = "failed" /\ error.kind # "schema") => LoadedWellFormed

\* the second record of the second document lacks its name
C10_Witness ==
    /\ pc = "failed"
    /\ error.kind = "schema"
    /\ error.file = 2
    /\ error.section = "entities"
    /\ error.index = 2
    /\ sources[2].entities[2] = EntNoName

\* C11: every edge of the network view carries the from, the to and, as its
\* label, the type of the relationship it was made from, and every node
\* carries the id of its entity and a label that is the entity's name.
C11_EdgeNodeContent ==
    NetworkPath \in DOMAIN site =>
        LET view == site[NetworkPath]
        IN /\ Len(view.edges) = Len(SourceRelationships)
           /\ \A i \in 1..Len(view.edges) :
                 /\ view.edges[i].from = SourceRelationships[i].from
                 /\ view.edges[i].to = SourceRelationships[i].to
                 /\ view.edges[i].label = SourceRelationships[i].type
           /\ \A i \in 1..Len(view.nodes) :
                 /\ view.nodes[i].id \in SourceIds
                 /\ view.nodes[i].label = LastWithId(view.nodes[i].id).name

\* a written view with the edges a -> b and b -> a between two named entities
C11_Witness ==
    /\ pc = "done"
    /\ Len(site[NetworkPath].nodes) = 2
    /\ Len(site[NetworkPath].edges) = 2
    /\ site[NetworkPath].edges[1].from = "a"
    /\ site[NetworkPath].edges[1].to = "b"
    /\ site[NetworkPath].edges[2].from = "b"
    /\ site[NetworkPath].nodes[1].label = "A"

\* C16: a click on the graph that selects a node n sends the browser to the
\* hash-routed entity viewer entities/entity.html#n, where getEntityIdFromHash
\* returns n; a click that selects no node causes no navigation.
C16_ClickOpensViewer ==
    /\ Len(params.nodes) > 0 =>
          /\ location = EntityViewerUrl(params.nodes[1])
          /\ getEntityIdFromHash(location) = params.nodes[1]
    /\ Len(params.nodes) = 0 => location = IndexUrl

\* C18: once the DOMContentLoaded handler of the network page has finished,
\* either the graph was created and the container has class 'loaded', or the
\* container shows the error message, no graph exists and the container does
\* not have class 'loaded'; the loading message never remains.
C18_LoadOutcome ==
    netPc = "settled" =>
        /\ container.html # "loading"
        /\ \/ network /\ container.loaded /\ container.html = "graph"
           \/ ~network /\ ~container.loaded /\ container.html = "error"

\* the URL string of an image_links entry
UrlOfLink(imgItem) == IF imgItem.typeof = "string" THEN imgItem.value ELSE imgItem.value.url

C13_OnlyMetaAndOneDocument ==
    \A r \in requests :
        /\ r.by \in 1..Len(calls)
        /\ r.url \in {MetaUrl, RelationshipsUrl, EntityUrl(calls[r.by].entityId)}
        /\ r.url # NetworkUrl

\* a, which has relationships with b, is displayed after three requests
C13_Witness ==
    /\ entity = <<DocA>>
    /\ "hidden" \notin entityContent
    /\ Len(rendered.incoming) = 1
    /\ Len(rendered.outgoing) = 1
    /\ requests = {[by |-> 1, url |-> MetaUrl], [by |-> 1, url |-> RelationshipsUrl],
                   [by |-> 1, url |-> EntityUrl("a")]}

SharedRequests(reqs) == {r \in reqs : r.url \in {MetaUrl, RelationshipsUrl}}

\* C14: shared data is cached across navigations: from a state where both
\* entities-meta.json and relationships.json are cached, no step of the page
\* issues a request for either of them.
C14_SharedDataCached ==
    [][(entitiesMetaData # <<>> /\ relationshipsData # <<>>) =>
          SharedRequests(requests') = SharedRequests(requests)]_pageVars

\* a second navigation, to b, was served from the cache: its only request is
\* the document of b
C14_Witness ==
    /\ Len(calls) >= 2
    /\ calls[2].entityId = "b"
    /\ calls[2].at = "done"
    /\ entity = <<DocB>>
    /\ {r \in requests : r.by = 2} = {[by |-> 2, url |-> EntityUrl("b")]}
    /\ entitiesMetaData # <<>>
    /\ relationshipsData # <<>>

\* C15: hash routing converges to the current hash: once no call of
\* loadAndDisplayEntity is pending, a visible content panel shows the name and
\* the title of the entity whose id is the current hash.
C15_ConvergesToHash ==
    (/\ pagePc = "ready"
     /\ \A i \in 1..Len(calls) : calls[i].at = "done"
     /\ "hidden" \notin entityContent) =>
        /\ hash \in DOMAIN ServedMeta
        /\ entity # <<>>
        /\ entity[1].id = hash
        /\ rendered.name = ServedMeta[hash].name
        /\ title = <<ServedMeta[hash].name, " - DataLink">>

\* C17: images are loaded only when visible: an image request was started
\* for a gallery item only if an IntersectionObserver has reported the item
\* as intersecting; a newly rendered item has no request.
C17_LoadedOnlyWhenVisible ==
    \A u \in DOMAIN items : items[u].requests > 0 => items[u].reported

\* an item was reported, requested once and loaded
C17_Witness ==
    \E u \in DOMAIN items :
        /\ items[u].reported
        /\ items[u].requests = 1
        /\ items[u].loaded

\* C19: lightbox keyboard navigation acts only on an open lightbox: on a
\* lightbox with class 'active' Escape removes the class, ArrowLeft does
\* previousImage and ArrowRight does nextImage; on a lightbox without it these
\* keys change neither currentImageIndex nor the lightbox nor the body.
C19_KeysOnlyWhenActive ==
    [][(/\ event'.n # event.n
        /\ event'.kind = "keydown"
        /\ event'.key \in {"Escape", "ArrowLeft", "ArrowRight"}) =>
          IF "active" \in lightbox.classes
          THEN /\ event'.key = "Escape" => "active" \notin lightbox'.classes
               /\ event'.key = "ArrowLeft" =>
                     currentImageIndex' = IF currentImageIndex > 0
                                          THEN currentImageIndex - 1 ELSE currentImageIndex
               /\ event'.key = "ArrowRight" =>
                     currentImageIndex' = IF currentImageIndex < Len(images) - 1
                                          THEN currentImageIndex + 1 ELSE currentImageIndex
          ELSE UNCHANGED <<currentImageIndex, images, lightbox, bodyOverflow>>]_pageVars

\* ArrowRight on an open lightbox has moved it to the next image
C19_Witness ==
    /\ event.kind = "keydown"
    /\ event.key = "ArrowRight"
    /\ event.active
    /\ "active" \in lightbox.classes
    /\ currentImageIndex = event.index + 1
    /\ lightbox.src = images[currentImageIndex + 1].src

LoadingVisible == entityLoading # "none"
ContentVisible == "hidden" \notin entityContent
ErrorVisible == "hidden" \notin entityError

\* C20: at most one of the panels entity-loading, entity-content and
\* entity-error is visible; once a call of loadAndDisplayEntity has finished,
\* entity-loading is hidden and exactly one of the other two is visible.
C20_PanelState ==
    /\ ~(LoadingVisible /\ ContentVisible)
    /\ ~(LoadingVisible /\ ErrorVisible)
    /\ ~(ContentVisible /\ ErrorVisible)
    /\ (\E i \in 1..Len(calls) : calls[i].at = "done") =>
          /\ ~LoadingVisible
          /\ ContentVisible # ErrorVisible

\* an entity was displayed, then a later call ended in the error panel
C20_Witness ==
    /\ entity # <<>>
    /\ Len(calls) >= 2
    /\ \A i \in 1..Len(calls) : calls[i].at = "done"
    /\ ErrorVisible
    /\ ~ContentVisible

\* C21: a call of loadAndDisplayEntity with an empty id ends in the error
\* panel and has made no request; a call whose id is not empty and is no key
\* of entities-meta.json never requests entities/{id}.json and never ends in
\* the content panel
C21_UnknownOrMissingId ==
    \A i \in 1..Len(calls) :
        /\ calls[i].entityId = "" =>
              /\ calls[i].ended = "error"
              /\ \A r \in requests : r.by # i
        /\ (calls[i].entityId # "" /\ calls[i].entityId \notin DOMAIN ServedMeta) =>
              /\ [by |-> i, url |-> EntityUrl(calls[i].entityId)] \notin requests
              /\ calls[i].ended # "content"

\* C22: whatever panel was shown before, a call of loadAndDisplayEntity that
\* ends with its document displayed leaves the content panel visible and the
\* error panel hidden, and a call that ends in a failure (unknown id, fetch
\* rejected or not OK, body not parsed) leaves the error panel visible and
\* the content panel hidden
C22_ErrorRecoverable ==
    [][\A i \in 1..Len(calls') :
          (calls'[i].at = "done" /\ (i > Len(calls) \/ calls[i].at # "done")) =>
              IF calls'[i].ended = "content"
              THEN ContentVisible' /\ ~ErrorVisible'
              ELSE ErrorVisible' /\ ~ContentVisible']_pageVars

\* an unknown id ended in the error panel, then a was displayed, then the
\* unknown id ended in the error panel again
C22_Witness ==
    /\ Len(calls) = 3
    /\ \A i \in 1..3 : calls[i].at = "done"
    /\ calls[1].entityId = "x" /\ calls[1].ended = "error"
    /\ calls[2].entityId = "a" /\ calls[2].ended = "content"
    /\ calls[3].entityId = "x" /\ calls[3].ended = "error"
    /\ entity = <<DocA>>
    /\ ErrorVisible
    /\ ~ContentVisible

\* call i had its loadSharedData pending and fails in it with this step
SharedLoadFails(i) == calls[i].shared = "pending" /\ calls'[i].shared = "failed"

\* C23: whenever loadSharedData of a call fails, the error panel is shown and
\* the guard !entitiesMetaData || !relationshipsData is true afterwards, so
\* that the next call requests both files again
C23_FailedSharedLoadRetried ==
    [][\A i \in 1..Len(calls) :
          SharedLoadFails(i) => ErrorVisible' /\ NeedsSharedData']_pageVars

\* the calls of loadAndDisplayEntity that called loadSharedData
SharedLoaders == {i \in 1..Len(calls) : calls[i].shared # "none"}

\* C24: when the first loadSharedData of the page has succeeded, each of
\* entities-meta.json and relationships.json was requested exactly once,
\* whatever hashchange events came before or after
C24_SharedDataRequestedOnce ==
    SharedLoaders # {} =>
        LET first == CHOOSE i \in SharedLoaders : \A j \in SharedLoaders : i <= j
        IN calls[first].shared = "ok" =>
              \A u \in SharedUrls : Cardinality({r \in requests : r.url = u}) = 1

\* the sections of the page that are on screen
VisibleSections ==
    {"entity-description", "entity-properties", "entity-external-links",
     "entity-gallery", "entity-relationships"} \ rendered.display

\* C25: after navigations that all ended with their document displayed, a
\* section is visible exactly when the entity displayed last has its data,
\* and a visible description, properties or links section shows the data of
\* that entity
C25_SectionsFollowEntity ==
    (/\ calls # <<>>
     /\ \A i \in 1..Len(calls) : calls[i].at = "done" /\ calls[i].ended = "content") =>
        LET e == entity[1]
        IN /\ rendered.display = HiddenSections(e, relationshipsData[1])
           /\ "entity-description" \in VisibleSections =>
                 rendered.description = <<e.description>>
           /\ "entity-properties" \in VisibleSections =>
                 rendered.properties = <<renderProperties(e.properties)>>
           /\ "entity-external-links" \in VisibleSections =>
                 rendered.links = e.external_links

\* the list the claim describes: one item for each relationship of rels, in
\* order, whose end `self` is x and whose end `other` is a key of meta
ExpectedList(rels, meta, x, self, other) ==
    LET mine == SelectSeq(rels, LAMBDA r : r[self] = x /\ r[other] \in DOMAIN meta)
    IN [i \in 1..Len(mine) |->
          [href |-> <<"#", mine[i][other]>>, name |-> meta[mine[i][other]].name,
           type |-> mine[i].type]]

\* C26: when the relationships of the displayed entity have been rendered, the
\* incoming and outgoing lists are the ones of the entity over
\* relationships.json, and a heading is shown only when its list has an item
C26_RelationshipListing ==
    (/\ entity # <<>>
     /\ calls[Len(calls)].entityId = entity[1].id
     /\ "entity-relationships" \notin HiddenSections(entity[1], relationshipsData[1])) =>
        LET x == entity[1].id
            rels == relationshipsData[1]
            meta == entitiesMetaData[1]
        IN /\ rendered.incoming = ExpectedList(rels, meta, x, "to", "from")
           /\ rendered.outgoing = ExpectedList(rels, meta, x, "from", "to")
           /\ "Incoming Relationships" \in rendered.headings => Len(rendered.incoming) >= 1
           /\ "Outgoing Relationships" \in rendered.headings => Len(rendered.outgoing) >= 1

\* C27: once an entity with images is displayed, the gallery lists its
\* image_links in order and then its local_images in order, and the number
\* of gallery items, the lightbox-total counter and the length of
\* ImageGallery.images all equal len(image_links) + len(local_images); when
\* the displayed entity has no image the gallery section is hidden
C27_GalleryComposition ==
    entity # <<>> =>
        LET e == entity[1]
            links == IF "image_links" \in DOMAIN e THEN e.image_links ELSE <<>>
            locals == IF "local_images" \in DOMAIN e THEN e.local_images ELSE <<>>
            n == Len(links) + Len(locals)
        IN IF n = 0
           THEN "entity-gallery" \in rendered.display
           ELSE /\ Len(galleryItems) = n
                /\ lightbox.total = n
                /\ Len(images) = n
                /\ \A i \in 1..Len(links) :
                      /\ items[galleryItems[i]].src = UrlOfLink(links[i])
                      /\ images[i].src = UrlOfLink(links[i])
                /\ \A j \in 1..Len(locals) :
                      /\ items[galleryItems[Len(links) + j]].src = locals[j].path
                      /\ images[Len(links) + j].src = locals[j].path

\* A is displayed with its two image links and its local image, after B
\* with its one image
C27_Witness ==
    /\ Len(calls) >= 3
    /\ calls[Len(calls) - 1].entityId = "b"
    /\ entity = <<DocA>>
    /\ Len(galleryItems) = 3
    /\ lightbox.total = 3
    /\ Len(images) = 3
    /\ images[3].src = "img/a.png"
    /\ "entity-gallery" \notin rendered.display

\* C28: whenever the lightbox is active the index is one of ImageGallery.images:
\* 0 <= currentImageIndex < images.length
C28_IndexInRange ==
    "active" \in lightbox.classes =>
        0 <= currentImageIndex /\ currentImageIndex < Len(images)

\* C29: whenever the lightbox is active the prev button is disabled iff
\* currentImageIndex = 0, the next button is disabled iff currentImageIndex =
\* images.length - 1, and the counter shows currentImageIndex + 1 of
\* images.length
C29_ButtonsAndCounter ==
    "active" \in lightbox.classes =>
        /\ lightbox.prevDisabled <=> currentImageIndex = 0
        /\ lightbox.nextDisabled <=> currentImageIndex = Len(images) - 1
        /\ lightbox.current = currentImageIndex + 1
        /\ lightbox.total = Len(images)

\* C30: in every state the lightbox has the class hidden iff it does not have
\* the class active, and body scrolling is locked iff the lightbox is active;
\* so closing an opened lightbox gives back the initial closed state
C30_ClosedStateRestored ==
    /\ "hidden" \in lightbox.classes <=> "active" \notin lightbox.classes
    /\ bodyOverflow = "hidden" <=> "active" \in lightbox.classes

\* C31: loadImage starts at most one image request for a gallery item,
\* whatever intersections are reported and whenever they are reported
C31_RequestedAtMostOnce ==
    \A u \in DOMAIN items : items[u].requests <= 1

\* the gallery items of the document
DomItems(dom) == {dom[i] : i \in 1..Len(dom)}

\* C32: no gallery item is observed by two observers; a run of
\* setupLazyLoading creates one observer, which starts to observe exactly the
\* items of the document that were not marked data-observer-added, and
\* leaves every item of the document marked
C32_ObservedByAtMostOne ==
    [][/\ \A u \in DOMAIN items' : Cardinality({p \in observed' : p[2] = u}) <= 1
       /\ observer' # observer =>
             /\ observer' = observer + 1
             /\ observed' \ observed =
                   {<<observer', u>> : u \in {v \in DomItems(galleryItems') :
                                                v \notin DOMAIN items \/ ~items[v].observerAdded}}
             /\ \A u \in DomItems(galleryItems') : items'[u].observerAdded
      ]_pageVars

\* setupLazyLoading has run at setup and for two entities: the item of B is
\* observed by the observer of its render, the items of A by the next one
C32_Witness ==
    /\ observer = 3
    /\ entity = <<DocA>>
    /\ Len(galleryItems) = 3
    /\ \A u \in DomItems(galleryItems) : <<3, u>> \in observed /\ items[u].observerAdded
    /\ <<2, 1>> \in observed
    /\ Cardinality(observed) = 4

\* C33: an item whose image load has completed, with the image loaded or
\* with an error, and that has no load pending, is observed by no
\* IntersectionObserver
C33_ObservationStops ==
    \A u \in DOMAIN items :
        ((items[u].loaded \/ items[u].failed) /\ items[u].pending = 0) =>
            \A p \in observed : p[2] # u

\* C34: at most one resize timer is pending; a resize event leaves exactly
\* the timer it has set pending and calls no fit; a resize timer that fires
\* is the one of the last resize event, it calls network.fit() once and
\* leaves no timer pending
C34_Debounced ==
    [][/\ Cardinality(resizeTimeout'.pending) <= 1
       /\ resizeTimeout'.id # resizeTimeout.id =>
             /\ resizeTimeout'.pending = {resizeTimeout'.id}
             /\ fits' = fits
       /\ (resizeTimeout'.id = resizeTimeout.id
           /\ resizeTimeout'.pending # resizeTimeout.pending) =>
             /\ resizeTimeout.pending = {resizeTimeout.id}
             /\ resizeTimeout'.pending = {}
             /\ fits' = fits + 1
      ]_netVars

\* a burst of three resize events: the first two timers were cleared, the
\* third has fired; besides the initial fit there was one call of fit
C34_Witness ==
    /\ resizeTimeout = [id |-> 3, pending |-> {}]
    /\ ~initialFit
    /\ fits = 2

\* C35: while the lightbox of docs/javascripts/entity.js is closed no
\* handleKeydown of an earlier open is a keydown listener of document, and
\* at no time more than one is
C35_NoKeyHandlerLeft ==
    /\ "active" \notin oldLightbox.classes => keydownHandlers = {}
    /\ Cardinality(keydownHandlers) <= 1

\* C36: once entities-meta.json and relationships.json are both cached, no
\* step of the entity page changes entitiesMetaData or relationshipsData
C36_CacheReadOnly ==
    [][~NeedsSharedData => UNCHANGED <<entitiesMetaData, relationshipsData>>]_pageVars

\* with the data cached, a was displayed, the load of b failed and a was
\* displayed again; the cache is what was loaded
C36_Witness ==
    /\ Len(calls) = 3
    /\ \A i \in 1..3 : calls[i].at = "done"
    /\ calls[1].ended = "content" /\ calls[1].shared = "ok"
    /\ calls[2].entityId = "b" /\ calls[2].ended = "error" /\ calls[2].shared = "none"
    /\ calls[3].ended = "content" /\ calls[3].shared = "none"
    /\ entitiesMetaData = <<ServedMeta>>
    /\ relationshipsData = <<ServedRelationships>>

\* a snake_case key in Title Case: every underscore a space, the first letter
\* of every word upper-cased
TitleCase(key) ==
    LET spaced == [i \in 1..Len(key) |-> IF key[i] = "_" THEN " " ELSE key[i]]
    IN [i \in 1..Len(key) |->
          IF spaced[i] # " " /\ (i = 1 \/ spaced[i - 1] = " ")
          THEN toUpperCase(spaced[i]) ELSE spaced[i]]

\* C37: the properties list of the displayed entity shows every key in Title
\* Case, and a list value as its items joined by ', '
C37_TitleCaseKeys ==
    (/\ entity # <<>>
     /\ "properties" \in DOMAIN entity[1]
     /\ calls[Len(calls)].entityId = entity[1].id
     /\ calls[Len(calls)].ended = "content") =>
        LET props == entity[1].properties
            lines == rendered.properties[1]
        IN /\ Len(lines) = Len(props)
           /\ \A i \in 1..Len(props) :
                 /\ lines[i].key = TitleCase(props[i].key)
                 /\ props[i].value.isArray =>
                       lines[i].value = Join(props[i].value.value, ", ")

====
